---- MODULE Spec2Model ----
(***************************************************************************)
(* Model of the license admission store (internal/store/bbolt_store.go),   *)
(* its key generator (internal/license) and the callers' concurrency.      *)
(*                                                                         *)
(* Strings are sequences of code points.  A bbolt bucket is a function     *)
(* from keys to values; db.Update runs its closure as one atomic step      *)
(* (bbolt has a single writer), so every transaction is one action, while  *)
(* what a method does before db.Update (argument checks, key generation,   *)
(* time.Now) is a separate step of the calling goroutine.                  *)
(***************************************************************************)
EXTENDS Integers, Sequences, FiniteSets, TLC

VARIABLES
    licenses,   \* bucket "licenses": license key -> License record
    usage,      \* bucket "usage": license key -> (server id -> ServerBinding)
    clock,      \* the wall clock read by time.Now()
    pc,         \* per goroutine: "idle", "create_tx" or "activate_tx"
    frame,      \* per goroutine: the locals captured before db.Update
    ret,        \* the return of a store method on its way to the caller
    tally,      \* scenario history: call number -> the result Activate returned
    states      \* the operator bot's map: chat id -> pending state

vars == <<licenses, usage, clock, pc, frame, ret, tally, states>>

----------------------------------------------------------------------------
(* Bounds *)

MaxLimit == 2         \* largest limit passed to CreateLicense / SetLimit
MaxSeen == 2          \* a binding is refreshed until seen_count reaches this
NumDevices == 3       \* device ids offered by the single caller of SpecSolo
MaxBurstLimit == 2    \* largest limit in the burst scenario
MaxSeqLimit == 3      \* largest limit in the sequential scenario
MaxClock == 1         \* ticks of the clock in the sequential scenario (one elsewhere)

(* Program constants *)

MaxServerIDLen == 128

----------------------------------------------------------------------------
(* Strings *)

Rep(c, n) == [i \in 1..n |-> c]

\* unicode.IsSpace on the Latin-1 range, as used by strings.TrimSpace
IsSpace(c) == c \in {9, 10, 11, 12, 13, 32, 133, 160}

RECURSIVE TrimLeft(_)
TrimLeft(s) == IF s = <<>> THEN s
               ELSE IF IsSpace(Head(s)) THEN TrimLeft(Tail(s)) ELSE s

RECURSIVE TrimRight(_)
TrimRight(s) == IF s = <<>> THEN s
                ELSE IF IsSpace(s[Len(s)]) THEN TrimRight(SubSeq(s, 1, Len(s) - 1))
                ELSE s

TrimSpace(s) == TrimRight(TrimLeft(s))

\* license keys as license.NewKey may return them: "K1", "K2"
Key(i) == <<75, 48 + i>>
OneKey == {Key(1)}
TwoKeys == {Key(1), Key(2)}

\* well-formed device ids: "D1", "D2", ...
DeviceID(i) == <<68, 48 + i>>
Devices(n) == {DeviceID(i) : i \in 1..n}

LongID == Rep(120, MaxServerIDLen + 1)

Padded(S) == {<<32>> \o s \o <<9, 32>> : s \in S}

\* what callers pass to Activate: well-formed, padded, blank and over-long strings
RawKeys(K) == K \cup Padded(K) \cup {<<>>, <<32>>}
RawIDs(n) == Devices(n) \cup Padded({DeviceID(1)}) \cup {<<>>, <<32, 10>>, LongID}

Notes == {"vip"}
LimitInputs == (-1)..MaxLimit

\* goroutines calling the store: two in Spec, limit+5 in the burst scenario
Threads == 1..(MaxBurstLimit + 5)
Workers == {1, 2}

----------------------------------------------------------------------------
(* Records *)

ZeroLicense == [Key |-> <<>>, Limit |-> 0, Note |-> "", Enabled |-> FALSE, CreatedAt |-> 0]

ZeroResult == [OK |-> FALSE, Reason |-> "", Used |-> 0, Limit |-> 0, NewlyBound |-> FALSE]

ZeroBinding == [ServerID |-> <<>>, FirstSeen |-> 0, LastSeen |-> 0, SeenCount |-> 0]

ZeroInfo == [License |-> ZeroLicense, Used |-> 0, Bindings |-> <<>>]

ZeroFrame == [key |-> <<>>, serverID |-> <<>>, limit |-> 0, note |-> "", now |-> 0,
              lic |-> ZeroLicense]

\* a return: the method, its caller and arguments, and what it returned
NoRet == [op |-> "none", thread |-> 0, key |-> <<>>, serverID |-> <<>>, limit |-> 0,
          err |-> "", lic |-> ZeroLicense, res |-> ZeroResult,
          info |-> ZeroInfo, list |-> <<>>]

Return(op, t, key, id, limit, err, lic, res) ==
    [op |-> op, thread |-> t, key |-> key, serverID |-> id, limit |-> limit,
     err |-> err, lic |-> lic, res |-> res, info |-> ZeroInfo, list |-> <<>>]

\* the return of GetInfo (info) or ListLicenses (list)
ReturnInfo(op, t, key, err, info, list) ==
    [op |-> op, thread |-> t, key |-> key, serverID |-> <<>>, limit |-> 0,
     err |-> err, lic |-> ZeroLicense, res |-> ZeroResult, info |-> info, list |-> list]

\* stored bytes that are not the JSON of a record: json.Unmarshal fails on them
GarbageLicense == [ZeroLicense EXCEPT !.Note = "garbage"]
GarbageBinding == [ZeroBinding EXCEPT !.SeenCount = -1]

errNotFound == "license not found"
errUnmarshal == "invalid character"

EmptyBucket == [x \in {} |-> 0]

\* Bucket.Put
Put(b, k, v) == [x \in DOMAIN b \cup {k} |-> IF x = k THEN v ELSE b[x]]

\* countKeys
countKeys(b) == Cardinality(DOMAIN b)

\* faulty variant: one bucket of bindings shared by all licenses
UsageOf_Shared(key) ==
    [d \in UNION {DOMAIN usage[k] : k \in DOMAIN usage} |->
        usage[CHOOSE k \in DOMAIN usage : d \in DOMAIN usage[k]][d]]

\* the nested bucket of a license, nil (empty here) when it was never created
UsageOf(key) == IF key \in DOMAIN usage THEN usage[key] ELSE EmptyBucket

\* faulty variant: a missing record reads as the zero License
getLicense_Zero(key) ==
    IF key \notin DOMAIN licenses
    THEN [err |-> "", lic |-> [ZeroLicense EXCEPT !.Key = key]]
    ELSE [err |-> "", lic |-> licenses[key]]

\* bbolt_store.go 225-236
getLicense(key) ==
    IF key \notin DOMAIN licenses THEN [err |-> errNotFound, lic |-> ZeroLicense]
    ELSE IF licenses[key] = GarbageLicense THEN [err |-> errUnmarshal, lic |-> ZeroLicense]
    ELSE [err |-> "", lic |-> licenses[key]]

\* bbolt_store.go 200: _ = json.Unmarshal(existing, &sb) leaves sb zero on failure
DecodeBinding(v) == IF v = GarbageBinding THEN ZeroBinding ELSE v

RECURSIVE Perms(_)
Perms(S) == IF S = {} THEN {<<>>}
            ELSE UNION {{<<x>> \o p : p \in Perms(S \ {x})} : x \in S}

\* bbolt_store.go 251-259: the bindings as read, ServerID taken from the bucket key
BindingAt(b, d) == [b[d] EXCEPT !.ServerID = d]

\* faulty variant: the bindings are sorted oldest first
ByLastSeen_Ascending(b) ==
    {[i \in 1..Len(p) |-> BindingAt(b, p[i])] : p \in
        {q \in Perms(DOMAIN b) :
            \A i, j \in 1..Len(q) : i < j => ~(b[q[j]].LastSeen < b[q[i]].LastSeen)}}

\* bbolt_store.go 263-265: the orders sort.Slice may leave (it is not stable)
ByLastSeen(b) ==
    {[i \in 1..Len(p) |-> BindingAt(b, p[i])] : p \in
        {q \in Perms(DOMAIN b) :
            \A i, j \in 1..Len(q) : i < j => ~(b[q[j]].LastSeen > b[q[i]].LastSeen)}}

\* bbolt_store.go 244-267: the error, or the lists getBindings may return
getBindings(key) ==
    LET b == UsageOf(key)
    IN IF \E d \in DOMAIN b : b[d] = GarbageBinding
       THEN [err |-> errUnmarshal, lists |-> {<<>>}]
       ELSE [err |-> "", lists |-> ByLastSeen(b)]

Init ==
    /\ licenses = EmptyBucket
    /\ usage = EmptyBucket
    /\ clock = 0
    /\ pc = [t \in Threads |-> "idle"]
    /\ frame = [t \in Threads |-> ZeroFrame]
    /\ ret = NoRet
    /\ tally = <<>>
    /\ states = <<>>

----------------------------------------------------------------------------
(* Guards of the store methods *)

\* faulty variant: zero passes the limit check
LimitInvalid_Strict(limit) == limit < 0

\* CreateLicense / SetLimit: if limit <= 0 { return error }
LimitInvalid(limit) == limit <= 0

\* faulty variant: no collision test, the record is overwritten
KeyTaken_Never(key) == FALSE

\* CreateLicense: if b.Get(key) != nil { return "key collision" }
KeyTaken(key) == key \in DOMAIN licenses

\* Activate: if key == "" || serverID == "" { invalid_request }
InvalidRequest(key, serverID) == key = <<>> \/ serverID = <<>>

\* the number of bytes of the UTF-8 encoding of a code point
ByteWidth(c) == IF c < 128 THEN 1 ELSE IF c < 2048 THEN 2 ELSE IF c < 65536 THEN 3 ELSE 4

\* len(s) of a Go string: the bytes of its UTF-8 encoding
ByteLen(s) ==
    Len(s) + Cardinality({i \in DOMAIN s : s[i] >= 128})
           + Cardinality({i \in DOMAIN s : s[i] >= 2048})
           + Cardinality({i \in DOMAIN s : s[i] >= 65536})

\* Activate: if len(serverID) > 128 { server_id_too_long }; a string has at
\* least as many bytes as code points
ServerIDTooLong(serverID) ==
    Len(serverID) > MaxServerIDLen \/ ByteLen(serverID) > MaxServerIDLen

\* Activate: if used >= lic.Limit { limit_reached }
\* faulty variant: one binding too many is admitted
LimitReached_Off(used, limit) == used > limit

\* faulty variant: the ceiling holds only at used = limit, not above it
LimitReached_Exact(used, limit) == used = limit

LimitReached(used, limit) == used >= limit

\* Activate: if !lic.Enabled { disabled }
Disabled(lic) == ~lic.Enabled

Idle(t) == [pc EXCEPT ![t] = "idle"]
Clear(t) == [frame EXCEPT ![t] = ZeroFrame]

----------------------------------------------------------------------------
(* CreateLicense *)

\* bbolt_store.go 57-66: checks the limit, draws a key, reads the clock
CreateBegin(t, limit, note, key, randOK) ==
    /\ ret = NoRet
    /\ pc[t] = "idle"
    /\ IF LimitInvalid(limit)
       THEN /\ ret' = Return("CreateLicense", t, <<>>, <<>>, limit, "limit must be > 0",
                             ZeroLicense, ZeroResult)
            /\ UNCHANGED <<pc, frame>>
       ELSE IF ~randOK
       THEN /\ ret' = Return("CreateLicense", t, <<>>, <<>>, limit, "rand",
                             ZeroLicense, ZeroResult)
            /\ UNCHANGED <<pc, frame>>
       ELSE /\ pc' = [pc EXCEPT ![t] = "create_tx"]
            /\ frame' = [frame EXCEPT ![t] = [key |-> key, serverID |-> <<>>, limit |-> limit,
                                              note |-> note, now |-> clock,
                                              lic |-> ZeroLicense]]
            /\ UNCHANGED ret
    /\ UNCHANGED <<licenses, usage, clock, tally, states>>

\* bbolt_store.go 68-82: the creating transaction
CreateTx(t) ==
    /\ ret = NoRet
    /\ pc[t] = "create_tx"
    /\ LET f == frame[t]
           lic == [Key |-> f.key, Limit |-> f.limit, Note |-> f.note,
                   Enabled |-> TRUE, CreatedAt |-> f.now]
       IN IF KeyTaken(f.key)
          THEN /\ ret' = Return("CreateLicense", t, f.key, <<>>, f.limit,
                                "key collision, try again",
                                ZeroLicense, ZeroResult)
               /\ UNCHANGED <<licenses, usage>>
          ELSE /\ licenses' = Put(licenses, f.key, lic)
               /\ usage' = IF f.key \in DOMAIN usage THEN usage
                           ELSE Put(usage, f.key, EmptyBucket)
               /\ ret' = Return("CreateLicense", t, f.key, <<>>, f.limit, "", lic, ZeroResult)
    /\ pc' = Idle(t)
    /\ frame' = Clear(t)
    /\ UNCHANGED <<clock, tally, states>>

----------------------------------------------------------------------------
(* SetLimit, SetEnabled *)

\* bbolt_store.go 85-102
SetLimit(t, key, limit) ==
    /\ ret = NoRet
    /\ pc[t] = "idle"
    /\ IF LimitInvalid(limit)
       THEN /\ ret' = Return("SetLimit", t, key, <<>>, limit, "limit must be > 0",
                             ZeroLicense, ZeroResult)
            /\ UNCHANGED licenses
       ELSE IF getLicense(key).err # ""
       THEN /\ ret' = Return("SetLimit", t, key, <<>>, limit, getLicense(key).err,
                             ZeroLicense, ZeroResult)
            /\ UNCHANGED licenses
       ELSE LET lic == [getLicense(key).lic EXCEPT !.Limit = limit]
            IN /\ licenses' = Put(licenses, lic.Key, lic)
               /\ ret' = Return("SetLimit", t, key, <<>>, limit, "", lic, ZeroResult)
    /\ UNCHANGED <<usage, clock, pc, frame, tally, states>>

\* bbolt_store.go 104-118
SetEnabled(t, key, enabled) ==
    /\ ret = NoRet
    /\ pc[t] = "idle"
    /\ IF getLicense(key).err # ""
       THEN /\ ret' = Return("SetEnabled", t, key, <<>>, 0, getLicense(key).err,
                             ZeroLicense, ZeroResult)
            /\ UNCHANGED licenses
       ELSE LET lic == [getLicense(key).lic EXCEPT !.Enabled = enabled]
            IN /\ licenses' = Put(licenses, lic.Key, lic)
               /\ ret' = Return("SetEnabled", t, key, <<>>, 0, "", lic, ZeroResult)
    /\ UNCHANGED <<usage, clock, pc, frame, tally, states>>

----------------------------------------------------------------------------
(* GetInfo, ListLicenses *)

\* bbolt_store.go 120-137
GetInfo(t, key) ==
    /\ ret = NoRet
    /\ pc[t] = "idle"
    /\ IF getLicense(key).err # ""
       THEN ret' = ReturnInfo("GetInfo", t, key, getLicense(key).err, ZeroInfo, <<>>)
       ELSE IF getBindings(key).err # ""
       THEN ret' = ReturnInfo("GetInfo", t, key, getBindings(key).err, ZeroInfo, <<>>)
       ELSE \E bindings \in getBindings(key).lists :
               ret' = ReturnInfo("GetInfo", t, key, "",
                                 [License |-> getLicense(key).lic, Used |-> Len(bindings),
                                  Bindings |-> bindings], <<>>)
    /\ UNCHANGED <<licenses, usage, clock, pc, frame, tally, states>>

RECURSIVE SeenSum(_)
SeenSum(b) == IF DOMAIN b = {} THEN 0
              ELSE LET d == CHOOSE x \in DOMAIN b : TRUE
                   IN b[d].SeenCount + SeenSum([x \in DOMAIN b \ {d} |-> b[x]])

\* faulty variant: used counts the activations instead of the devices
Summary_Seen(k) ==
    [License |-> licenses[k], Used |-> SeenSum(UsageOf(k)), Bindings |-> <<>>]

\* bbolt_store.go 143-153: one summary entry, Bindings left nil
Summary(k) ==
    [License |-> licenses[k],
     Used |-> IF getBindings(k).err = "" THEN countKeys(UsageOf(k)) ELSE 0,
     Bindings |-> <<>>]

\* bbolt_store.go 158-160: the orders sort.Slice may leave, newest first
ByCreatedAt ==
    {[i \in 1..Len(p) |-> Summary(p[i])] : p \in
        {q \in Perms(DOMAIN licenses) :
            \A i, j \in 1..Len(q) :
               i < j => ~(licenses[q[j]].CreatedAt > licenses[q[i]].CreatedAt)}}

\* bbolt_store.go 139-162
ListLicenses(t) ==
    /\ ret = NoRet
    /\ pc[t] = "idle"
    /\ IF \E k \in DOMAIN licenses : getLicense(k).err # "" \/ getBindings(k).err # ""
       THEN ret' = ReturnInfo("ListLicenses", t, <<>>, errUnmarshal, ZeroInfo, <<>>)
       ELSE \E out \in ByCreatedAt :
               ret' = ReturnInfo("ListLicenses", t, <<>>, "", ZeroInfo, out)
    /\ UNCHANGED <<licenses, usage, clock, pc, frame, tally, states>>

----------------------------------------------------------------------------
(* Activate *)

InFlight(key, serverID) ==
    Cardinality({u \in Threads : /\ pc[u] = "activate_tx"
                                 /\ frame[u].key = key
                                 /\ frame[u].serverID = serverID})

\* keeps seen_count within MaxSeen: no call is started that could push it further
SeenRoom(key, serverID) ==
    LET b == UsageOf(key)
        seen == IF serverID \in DOMAIN b THEN b[serverID].SeenCount ELSE 0
    IN seen + InFlight(key, serverID) < MaxSeen

\* faulty variant: only the license key is trimmed
TrimmedArgs_KeyOnly(rawKey, rawID) == [key |-> TrimSpace(rawKey), serverID |-> rawID]

\* bbolt_store.go 165-166
TrimmedArgs(rawKey, rawID) == [key |-> TrimSpace(rawKey), serverID |-> TrimSpace(rawID)]

\* bbolt_store.go 164-175: trims, validates, reads the clock
ActivateBegin(t, rawKey, rawID) ==
    /\ ret = NoRet
    /\ pc[t] = "idle"
    /\ LET key == TrimmedArgs(rawKey, rawID).key
           serverID == TrimmedArgs(rawKey, rawID).serverID
       IN IF InvalidRequest(key, serverID)
          THEN /\ ret' = Return("Activate", t, key, serverID, 0, "", ZeroLicense,
                                [ZeroResult EXCEPT !.Reason = "invalid_request"])
               /\ UNCHANGED <<pc, frame>>
          ELSE IF ServerIDTooLong(serverID)
          THEN /\ ret' = Return("Activate", t, key, serverID, 0, "", ZeroLicense,
                                [ZeroResult EXCEPT !.Reason = "server_id_too_long"])
               /\ UNCHANGED <<pc, frame>>
          ELSE /\ SeenRoom(key, serverID)
               /\ pc' = [pc EXCEPT ![t] = "activate_tx"]
               /\ frame' = [frame EXCEPT ![t] = [key |-> key, serverID |-> serverID,
                                                 limit |-> 0, note |-> "", now |-> clock,
                                                 lic |-> ZeroLicense]]
               /\ UNCHANGED ret
    /\ UNCHANGED <<licenses, usage, clock, tally, states>>

\* bbolt_store.go 199-211: the binding to write, from the stored one if any
\* faulty variant: a refresh that does not count the call
Refreshed_NoCount(sb, now) == [sb EXCEPT !.LastSeen = now]

\* bbolt_store.go 201-202
Refreshed(sb, now) == [sb EXCEPT !.LastSeen = now, !.SeenCount = sb.SeenCount + 1]

NewBinding(serverID, now) ==
    [ServerID |-> serverID, FirstSeen |-> now, LastSeen |-> now, SeenCount |-> 1]

\* faulty variant: the limit is tested before the existing binding is looked up
Verdict_LimitFirst(key, serverID) ==
    IF key \notin DOMAIN licenses THEN "not_found"
    ELSE IF Disabled(licenses[key]) THEN "disabled"
    ELSE IF LimitReached(countKeys(UsageOf(key)), licenses[key].Limit)
    THEN "limit_reached"
    ELSE IF serverID \in DOMAIN UsageOf(key) THEN "refresh"
    ELSE "bind"

\* faulty variant: a bound device is refreshed before the enabled flag is tested
Verdict_RefreshFirst(key, serverID) ==
    IF key \notin DOMAIN licenses THEN "not_found"
    ELSE IF serverID \in DOMAIN UsageOf(key) THEN "refresh"
    ELSE IF Disabled(licenses[key]) THEN "disabled"
    ELSE IF LimitReached(countKeys(UsageOf(key)), licenses[key].Limit)
    THEN "limit_reached"
    ELSE "bind"

\* faulty variant: the capacity is tested before the enabled flag
Verdict_LimitBeforeDisabled(key, serverID) ==
    IF key \notin DOMAIN licenses THEN "not_found"
    ELSE IF /\ serverID \notin DOMAIN UsageOf(key)
            /\ LimitReached(countKeys(UsageOf(key)), licenses[key].Limit)
    THEN "limit_reached"
    ELSE IF Disabled(licenses[key]) THEN "disabled"
    ELSE IF serverID \in DOMAIN UsageOf(key) THEN "refresh"
    ELSE "bind"

\* bbolt_store.go 177-208: which branch the transaction takes
Verdict(key, serverID) ==
    IF getLicense(key).err # "" THEN "not_found"
    ELSE IF Disabled(licenses[key]) THEN "disabled"
    ELSE IF serverID \in DOMAIN UsageOf(key) THEN "refresh"
    ELSE IF LimitReached(countKeys(UsageOf(key)), licenses[key].Limit) THEN "limit_reached"
    ELSE "bind"

\* bbolt_store.go 212-215: the nested bucket after usage.Put
Written(key, serverID, now) ==
    LET b == UsageOf(key)
    IN IF serverID \in DOMAIN b
       THEN Put(b, serverID, Refreshed(DecodeBinding(b[serverID]), now))
       ELSE Put(b, serverID, NewBinding(serverID, now))

\* faulty variant: used is counted before the write
UsedAfter_Stale(key, serverID, now) == countKeys(UsageOf(key))

\* bbolt_store.go 216: used := countKeys(usage), after the write
UsedAfter(key, serverID, now) == countKeys(Written(key, serverID, now))

\* bbolt_store.go 179, 183, 206, 217: the result of the transaction
ActivateResult(key, serverID, now) ==
    LET v == Verdict(key, serverID)
    IN CASE v = "not_found" -> [ZeroResult EXCEPT !.Reason = "not_found"]
         [] v = "disabled" ->
              [ZeroResult EXCEPT !.Reason = "disabled", !.Limit = licenses[key].Limit]
         [] v = "limit_reached" ->
              [OK |-> FALSE, Reason |-> "limit_reached", Used |-> countKeys(UsageOf(key)),
               Limit |-> licenses[key].Limit, NewlyBound |-> FALSE]
         [] OTHER ->
              [OK |-> TRUE, Reason |-> "ok", Used |-> UsedAfter(key, serverID, now),
               Limit |-> licenses[key].Limit, NewlyBound |-> (v = "bind")]

\* faulty variant: the binding is written before the limit is tested
ActivateUsage_WriteFirst(key, serverID, now) ==
    IF Verdict(key, serverID) \in {"not_found", "disabled"}
    THEN usage
    ELSE Put(usage, key, Written(key, serverID, now))

\* bbolt_store.go 186-215: the usage bucket the transaction commits
ActivateUsage(key, serverID, now) ==
    LET v == Verdict(key, serverID)
    IN CASE v \in {"not_found", "disabled"} -> usage
         [] v = "limit_reached" -> Put(usage, key, UsageOf(key))
         [] OTHER -> Put(usage, key, Written(key, serverID, now))

\* bbolt_store.go 176-223: the activating transaction
ActivateTx(t) ==
    /\ ret = NoRet
    /\ pc[t] = "activate_tx"
    /\ LET f == frame[t]
       IN /\ usage' = ActivateUsage(f.key, f.serverID, f.now)
          /\ ret' = Return("Activate", t, f.key, f.serverID, 0, "", ZeroLicense,
                           ActivateResult(f.key, f.serverID, f.now))
    /\ pc' = Idle(t)
    /\ frame' = Clear(t)
    /\ UNCHANGED <<licenses, clock, tally, states>>

----------------------------------------------------------------------------
(* The clock and the system *)

\* time passes, up to instant m
Tick(m) ==
    /\ ret = NoRet
    /\ clock < m
    /\ clock' = clock + 1
    /\ UNCHANGED <<licenses, usage, pc, frame, ret, tally, states>>

\* the caller takes the returned value; the store's state is untouched.  Every
\* other step waits for it (ret = NoRet), so a return is seen in the state it
\* was produced in; the store never reads ret, so this loses none of its runs.
Take ==
    /\ ret # NoRet
    /\ ret' = NoRet
    /\ UNCHANGED <<licenses, usage, clock, pc, frame, states>>

Deliver == Take /\ UNCHANGED tally

\* the steps of the callers in W, with keys drawn from K and n device ids
StoreStep(W, K, n) ==
    \/ \E t \in W, limit \in LimitInputs, note \in Notes, key \in K,
          randOK \in BOOLEAN : CreateBegin(t, limit, note, key, randOK)
    \/ \E t \in W : CreateTx(t)
    \/ \E t \in W, key \in K, limit \in LimitInputs : SetLimit(t, key, limit)
    \/ \E t \in W, key \in K, enabled \in BOOLEAN : SetEnabled(t, key, enabled)
    \/ \E t \in W, key \in K : GetInfo(t, key)
    \/ \E t \in W : ListLicenses(t)
    \/ \E t \in W, rawKey \in RawKeys(K), rawID \in RawIDs(n) : ActivateBegin(t, rawKey, rawID)
    \/ \E t \in W : ActivateTx(t)
    \/ Tick(1)

Next ==
    \/ StoreStep(Workers, OneKey, 2)
    \/ Deliver

\* two concurrent callers on one license, with two device ids
Spec == Init /\ [][Next]_vars

NextTwo ==
    \/ StoreStep({1}, TwoKeys, 1)
    \/ Deliver

\* one caller on two licenses, with one device id
SpecTwo == Init /\ [][NextTwo]_vars

NextSolo ==
    \/ StoreStep({1}, OneKey, NumDevices)
    \/ Deliver

\* one caller on one license, with NumDevices device ids
SpecSolo == Init /\ [][NextSolo]_vars

TypeOK ==
    /\ DOMAIN licenses \subseteq TwoKeys
    /\ DOMAIN usage \subseteq TwoKeys
    /\ clock \in 0..MaxClock
    /\ \A t \in Threads : pc[t] \in {"idle", "create_tx", "activate_tx"}

----------------------------------------------------------------------------
(* Scenario: one caller activates new devices one after another *)

SeqKey == Key(1)

SeqCreateBegin ==
    /\ DOMAIN licenses = {}
    /\ \E L \in 1..MaxSeqLimit : CreateBegin(1, L, "vip", SeqKey, TRUE)

\* the i-th call is made with the i-th device id, up to one call past the limit
SeqBegin ==
    /\ SeqKey \in DOMAIN licenses
    /\ LET i == Cardinality(DOMAIN tally) + 1
       IN /\ i <= licenses[SeqKey].Limit + 1
          /\ ActivateBegin(1, SeqKey, DeviceID(i))

SeqDeliver ==
    /\ Take
    /\ tally' = IF ret.op = "Activate"
                THEN Put(tally, Cardinality(DOMAIN tally) + 1, ret.res)
                ELSE tally

NextSeq ==
    \/ SeqCreateBegin
    \/ CreateTx(1)
    \/ SeqBegin
    \/ ActivateTx(1)
    \/ Tick(MaxClock)
    \/ SeqDeliver

SpecSeq == Init /\ [][NextSeq]_vars

----------------------------------------------------------------------------
(* Scenario: limit+5 callers activate distinct new devices at once *)

BurstKey == Key(1)

BurstCreateBegin ==
    /\ DOMAIN licenses = {}
    /\ \E L \in 1..MaxBurstLimit : CreateBegin(1, L, "vip", BurstKey, TRUE)

BurstCallers == IF BurstKey \in DOMAIN licenses THEN 1..(licenses[BurstKey].Limit + 5) ELSE {}

\* caller t makes its one call, with device id t
BurstBegin(t) ==
    /\ t \in BurstCallers
    /\ t \notin DOMAIN tally
    /\ ActivateBegin(t, BurstKey, DeviceID(t))

BurstDeliver ==
    /\ Take
    /\ tally' = IF ret.op = "Activate" THEN Put(tally, ret.thread, ret.res) ELSE tally

NextBurst ==
    \/ BurstCreateBegin
    \/ CreateTx(1)
    \/ \E t \in Threads : BurstBegin(t)
    \/ \E t \in Threads : ActivateTx(t)
    \/ BurstDeliver

SpecBurst == Init /\ [][NextBurst]_vars

----------------------------------------------------------------------------
(* Steps as the properties see them *)

\* this step is the commit of an Activate transaction
ActivateCommits ==
    /\ ret = NoRet
    /\ ret'.op = "Activate"
    /\ pc[ret'.thread] = "activate_tx"

Bound(key) == DOMAIN UsageOf(key)



----------------------------------------------------------------------------
(* Properties *)

\* C1: whenever a step adds a binding to a license, the license exists and the
\* number of its bindings before the step is strictly below its stored limit.
C1_AdmissionBelowLimit ==
    [][\A k \in DOMAIN usage' : \A d \in DOMAIN usage'[k] :
          d \notin Bound(k) =>
             /\ k \in DOMAIN licenses
             /\ countKeys(UsageOf(k)) < licenses[k].Limit
             /\ countKeys(usage'[k]) <= licenses[k].Limit]_vars

\* a binding took the last slot while another caller is in flight with a new device
C1_Witness ==
    /\ ret.op = "Activate"
    /\ ret.res.NewlyBound
    /\ countKeys(usage[ret.key]) = licenses[ret.key].Limit
    /\ \E t \in Threads : /\ pc[t] = "activate_tx"
                          /\ frame[t].key = ret.key
                          /\ frame[t].serverID \notin Bound(ret.key)

BurstAll == BurstCallers # {} /\ DOMAIN tally = BurstCallers

\* C2: once all limit+5 concurrent calls have returned, exactly limit of them
\* returned ok with newly_bound, every other one returned limit_reached, and
\* the license has exactly limit bindings.
C2_BurstAdmitsExactlyLimit ==
    BurstAll =>
       LET L == licenses[BurstKey].Limit
           won == {t \in BurstCallers : tally[t].OK /\ tally[t].NewlyBound}
       IN /\ Cardinality(won) = L
          /\ \A t \in BurstCallers \ won :
                ~tally[t].OK /\ tally[t].Reason = "limit_reached"
          /\ countKeys(usage[BurstKey]) = L

C2_Witness == BurstAll /\ licenses[BurstKey].Limit = MaxBurstLimit

\* C3: the i-th sequential activation of a new device returns ok, newly_bound
\* and used = i while i <= L, and the (L+1)-th returns limit_reached with
\* used = L and limit = L.
C3_SequentialFill ==
    \A i \in DOMAIN tally :
       LET L == licenses[SeqKey].Limit
       IN IF i <= L
          THEN tally[i] = [OK |-> TRUE, Reason |-> "ok", Used |-> i, Limit |-> L,
                           NewlyBound |-> TRUE]
          ELSE tally[i] = [OK |-> FALSE, Reason |-> "limit_reached", Used |-> L,
                           Limit |-> L, NewlyBound |-> FALSE]

C3_Witness ==
    /\ SeqKey \in DOMAIN licenses
    /\ licenses[SeqKey].Limit = MaxSeqLimit
    /\ DOMAIN tally = 1..(MaxSeqLimit + 1)

\* C4: an Activate transaction for a device already bound under an enabled
\* license returns ok with newly_bound = false, keeps the license's set of
\* bound devices, and reports their unchanged number as used, whatever the
\* relation of that number to the limit.
C4_BoundDeviceReactivates ==
    [][(/\ ActivateCommits
        /\ ret'.key \in DOMAIN licenses
        /\ licenses[ret'.key].Enabled
        /\ ret'.serverID \in Bound(ret'.key))
       => /\ ret'.res.OK
          /\ ret'.res.Reason = "ok"
          /\ ~ret'.res.NewlyBound
          /\ DOMAIN usage'[ret'.key] = Bound(ret'.key)
          /\ ret'.res.Used = countKeys(UsageOf(ret'.key))]_vars

\* a bound device re-activated while the license holds more bindings than its limit
C4_Witness ==
    /\ ret.op = "Activate"
    /\ ret.res.OK
    /\ ~ret.res.NewlyBound
    /\ ret.res.Used > ret.res.Limit
    /\ countKeys(usage[ret.key]) > licenses[ret.key].Limit

\* C5: while a license is disabled no step changes its bindings and every
\* Activate transaction on it returns disabled (for bound and unbound devices
\* alike); a step that flips the enabled flag changes nothing else, so after
\* re-enabling the bindings and the limit are what they were.
C5_DisabledBlocksActivation ==
    [][/\ \A k \in DOMAIN licenses :
             ~licenses[k].Enabled =>
                /\ k \in DOMAIN usage'
                /\ usage'[k] = UsageOf(k)
                /\ (ActivateCommits /\ ret'.key = k) =>
                      ret'.res = [OK |-> FALSE, Reason |-> "disabled", Used |-> 0,
                                  Limit |-> licenses[k].Limit, NewlyBound |-> FALSE]
       /\ \A k \in DOMAIN licenses :
             licenses'[k].Enabled # licenses[k].Enabled =>
                /\ licenses' = [licenses EXCEPT ![k].Enabled = ~licenses[k].Enabled]
                /\ usage' = usage]_vars

\* a bound device was turned away because its license is disabled
C5_Witness ==
    /\ ret.op = "Activate"
    /\ ret.res.Reason = "disabled"
    /\ ret.serverID \in Bound(ret.key)

\* C6: an Activate call that returns ok = false changes no license and no
\* binding; one that returns ok = true changes no license and exactly one
\* binding, that of its (license, device) pair, which it creates with
\* seen_count 1 or refreshes with seen_count one higher.
C6_ActivateFrame ==
    [][(ret = NoRet /\ ret'.op = "Activate")
       => /\ licenses' = licenses
          /\ IF ~ret'.res.OK
             THEN usage' = usage
             ELSE LET k == ret'.key
                      d == ret'.serverID
                  IN /\ DOMAIN usage' = DOMAIN usage
                     /\ \A j \in DOMAIN usage \ {k} : usage'[j] = usage[j]
                     /\ DOMAIN usage'[k] = DOMAIN usage[k] \cup {d}
                     /\ \A e \in DOMAIN usage[k] \ {d} : usage'[k][e] = usage[k][e]
                     /\ usage'[k][d].SeenCount =
                           IF d \in DOMAIN usage[k] THEN usage[k][d].SeenCount + 1 ELSE 1]_vars

\* an activation succeeded while its license holds a binding of another device
C6_Witness ==
    /\ ret.op = "Activate"
    /\ ret.res.OK
    /\ \E e \in Bound(ret.key) : e # ret.serverID

\* C7: no step lowers the stored last_seen of a binding.
C7_LastSeenMonotone ==
    [][\A k \in DOMAIN usage : \A d \in DOMAIN usage[k] :
          /\ k \in DOMAIN usage'
          /\ d \in DOMAIN usage'[k]
          /\ usage'[k][d].LastSeen >= usage[k][d].LastSeen]_vars

\* C8: every stored license has a positive limit, and a CreateLicense or
\* SetLimit call with limit <= 0 returns the error and changes nothing.
C8_NonPositiveLimitRejected ==
    /\ [](\A k \in DOMAIN licenses : licenses[k].Limit > 0)
    /\ [][(ret = NoRet /\ ret'.op \in {"CreateLicense", "SetLimit"} /\ ret'.limit <= 0)
          => /\ ret'.err = "limit must be > 0"
             /\ licenses' = licenses
             /\ usage' = usage]_vars

\* SetLimit with a non-positive limit was refused on an existing license
C8_Witness ==
    /\ ret.op = "SetLimit"
    /\ ret.limit <= 0
    /\ ret.err # ""
    /\ ret.key \in DOMAIN licenses

\* C9: a creating transaction whose key is already stored returns an error
\* and changes nothing; one that succeeds stores a key that was not stored
\* before; and no step removes a stored key, so no two successful creations
\* return the same key.
C9_CollisionRejected ==
    [][/\ DOMAIN licenses \subseteq DOMAIN licenses'
       /\ (ret = NoRet /\ ret'.op = "CreateLicense" /\ pc[ret'.thread] = "create_tx")
          => IF ret'.key \in DOMAIN licenses
             THEN /\ ret'.err # ""
                  /\ licenses' = licenses
                  /\ usage' = usage
             ELSE /\ ret'.err = ""
                  /\ ret'.lic.Key = ret'.key
                  /\ licenses' = Put(licenses, ret'.key, ret'.lic)]_vars

\* a creation collided with a license that already has a binding
C9_Witness ==
    /\ ret.op = "CreateLicense"
    /\ ret.err = "key collision, try again"
    /\ Bound(ret.key) # {}

\* C10: a SetLimit call changes no binding and, when it succeeds, stores the
\* given limit; and while an enabled license holds more bindings than its
\* limit, an Activate transaction for an unbound device changes nothing and
\* returns limit_reached with used = the number of bindings and the limit.
C10_LoweredLimitKeepsBindings ==
    [][/\ (ret = NoRet /\ ret'.op = "SetLimit")
          => /\ usage' = usage
             /\ ret'.err = "" => licenses'[ret'.key].Limit = ret'.limit
       /\ (/\ ActivateCommits
           /\ ret'.key \in DOMAIN licenses
           /\ licenses[ret'.key].Enabled
           /\ countKeys(UsageOf(ret'.key)) > licenses[ret'.key].Limit
           /\ ret'.serverID \notin Bound(ret'.key))
          => /\ usage' = usage
             /\ ret'.res = [OK |-> FALSE, Reason |-> "limit_reached",
                            Used |-> countKeys(UsageOf(ret'.key)),
                            Limit |-> licenses[ret'.key].Limit,
                            NewlyBound |-> FALSE]]_vars

\* an unbound device was turned away from a license holding more bindings than its limit
C10_Witness ==
    /\ ret.op = "Activate"
    /\ ret.res.Reason = "limit_reached"
    /\ ret.res.Used > ret.res.Limit
    /\ ret.serverID \notin Bound(ret.key)

----------------------------------------------------------------------------
(* C11 *)

\* the return of a lookup by a key that has no license record
UnknownKeyReturn ==
    /\ ret = NoRet
    /\ ret'.op \in {"SetLimit", "SetEnabled", "GetInfo"}
    /\ ret'.key \notin DOMAIN licenses

\* C11 as stated: SetLimit, SetEnabled and GetInfo on a key that has no
\* license fail with the not-found error and leave the store unchanged.
C11_UnknownKeyAlwaysNotFound ==
    [][UnknownKeyReturn =>
          /\ ret'.err = errNotFound
          /\ licenses' = licenses
          /\ usage' = usage]_vars

\* C11: SetLimit with a positive limit, SetEnabled and GetInfo on a key that
\* has no license fail with the not-found error; SetLimit with a limit <= 0
\* fails with the limit error before the key is looked up; in every case no
\* license record is created and no record or binding is modified.
C11_UnknownKeyNotFound ==
    [][UnknownKeyReturn =>
          /\ ret'.err = IF ret'.op = "SetLimit" /\ ret'.limit <= 0
                        THEN "limit must be > 0" ELSE errNotFound
          /\ licenses' = licenses
          /\ usage' = usage]_vars

\* SetLimit with a positive limit was refused for an unknown key while
\* another license holds a binding
C11_Witness ==
    /\ ret.op = "SetLimit"
    /\ ret.limit > 0
    /\ ret.key \notin DOMAIN licenses
    /\ ret.err = errNotFound
    /\ \E k \in DOMAIN licenses : UsageOf(k) # EmptyBucket

----------------------------------------------------------------------------
(* The store with a ledger of the successful activations *)

ZeroCount == [oks |-> 0, news |-> 0]

Counted(pair) == IF pair \in DOMAIN tally THEN tally[pair] ELSE ZeroCount

\* what one delivered return adds to the ledger entry of its (key, device)
Tallied(r) ==
    IF r.op = "Activate" /\ r.err = "" /\ r.res.OK
    THEN Put(tally, <<r.key, r.serverID>>,
             [oks |-> Counted(<<r.key, r.serverID>>).oks + 1,
              news |-> Counted(<<r.key, r.serverID>>).news
                          + (IF r.res.NewlyBound THEN 1 ELSE 0)])
    ELSE tally

\* the caller receives the return; successful activations are counted
LedgerDeliver == Take /\ tally' = Tallied(ret)

NextLedger == StoreStep(Workers, OneKey, 2) \/ LedgerDeliver

SpecLedger == Init /\ [][NextLedger]_vars

\* the device ids for which an Activate on key has returned ok with newly_bound
EverAdmitted(key) == {p \in DOMAIN tally : p[1] = key /\ tally[p].news >= 1}

----------------------------------------------------------------------------
(* C12 *)

\* C12: the used value of GetInfo and of every ListLicenses entry equals the
\* number of distinct device ids for which an Activate on that license has
\* returned ok with newly_bound; in GetInfo it is the length of the bindings.
C12_UsedCountsAdmittedDevices ==
    /\ (ret.op = "GetInfo" /\ ret.err = "") =>
          /\ ret.info.Used = Cardinality(EverAdmitted(ret.key))
          /\ ret.info.Used = Len(ret.info.Bindings)
    /\ (ret.op = "ListLicenses" /\ ret.err = "") =>
          \A i \in 1..Len(ret.list) :
             ret.list[i].Used = Cardinality(EverAdmitted(ret.list[i].License.Key))

\* ListLicenses reports one device for a license whose device was activated twice
C12_Witness ==
    /\ ret.op = "ListLicenses"
    /\ ret.err = ""
    /\ Len(ret.list) = 1
    /\ ret.list[1].Used = 1
    /\ \E d \in DOMAIN UsageOf(ret.list[1].License.Key) :
          UsageOf(ret.list[1].License.Key)[d].SeenCount = 2

----------------------------------------------------------------------------
(* C18 *)

\* the (key, device) pairs that have a binding or a counted activation
LedgerPairs ==
    DOMAIN tally \cup UNION {{<<k, d>> : d \in DOMAIN usage[k]} : k \in DOMAIN usage}

SeenCountOf(pair) ==
    IF pair[2] \in DOMAIN UsageOf(pair[1]) THEN UsageOf(pair[1])[pair[2]].SeenCount ELSE 0

\* the successful activation of the pair that has returned and is not yet counted
Undelivered(pair) ==
    IF /\ ret.op = "Activate" /\ ret.err = "" /\ ret.res.OK
       /\ <<ret.key, ret.serverID>> = pair
    THEN 1 ELSE 0

\* C18: the seen_count of a binding equals the number of Activate calls for
\* that (license, device) pair that returned ok: 1 when the binding is
\* created, one more per successful re-activation, and unchanged by rejected
\* activations, also when the calls for the device overlap.
C18_SeenCountCountsOk ==
    \A pair \in LedgerPairs :
       SeenCountOf(pair) = Counted(pair).oks + Undelivered(pair)

\* a second call for the same device has refreshed the binding the first
\* call created, and the first call has been counted
C18_Witness ==
    /\ ret.op = "Activate"
    /\ ret.res.OK
    /\ ~ret.res.NewlyBound
    /\ SeenCountOf(<<ret.key, ret.serverID>>) = 2
    /\ Counted(<<ret.key, ret.serverID>>) = [oks |-> 1, news |-> 1]

----------------------------------------------------------------------------
(* C13 *)

\* an Activate transaction returns for a license that exists and is enabled
ReachesEnabled ==
    /\ ActivateCommits
    /\ ret'.key \in DOMAIN licenses
    /\ licenses[ret'.key].Enabled

\* C13 as stated: for every such call newly_bound is true exactly when the
\* device had no binding before the call, the reported limit is the stored
\* limit, and on success used is the number of bindings after the call.
C13_NewlyBoundIffUnbound ==
    [][ReachesEnabled =>
          /\ ret'.res.NewlyBound <=> (ret'.serverID \notin Bound(ret'.key))
          /\ ret'.res.Limit = licenses[ret'.key].Limit
          /\ ret'.res.OK => ret'.res.Used = countKeys(usage'[ret'.key])]_vars

\* C13: for every such call newly_bound is true exactly when the call
\* succeeds and the device had no binding before the call (a new device
\* refused with limit_reached reports newly_bound = false), the reported limit
\* is the stored limit, and on success used is the number of bindings after
\* the call.
C13_ResultFields ==
    [][ReachesEnabled =>
          /\ ret'.res.NewlyBound <=>
                (ret'.res.OK /\ ret'.serverID \notin Bound(ret'.key))
          /\ ret'.res.Limit = licenses[ret'.key].Limit
          /\ ret'.res.OK => ret'.res.Used = countKeys(usage'[ret'.key])]_vars

\* a device without a binding was refused at a full, enabled license
C13_Witness ==
    /\ ret.op = "Activate"
    /\ ret.res.Reason = "limit_reached"
    /\ ~ret.res.NewlyBound
    /\ ret.key \in DOMAIN licenses
    /\ licenses[ret.key].Enabled
    /\ ret.res.Limit = licenses[ret.key].Limit
    /\ ret.serverID \notin Bound(ret.key)

----------------------------------------------------------------------------
(* C14 *)

\* the first rejection that applies to the trimmed arguments, "ok" when none does
FirstRejection(key, serverID) ==
    IF key = <<>> \/ serverID = <<>> THEN "invalid_request"
    ELSE IF Len(serverID) > MaxServerIDLen THEN "server_id_too_long"
    ELSE IF key \notin DOMAIN licenses THEN "not_found"
    ELSE IF ~licenses[key].Enabled THEN "disabled"
    ELSE IF /\ serverID \notin Bound(key)
            /\ countKeys(UsageOf(key)) >= licenses[key].Limit THEN "limit_reached"
    ELSE "ok"

\* C14: Activate reports the first rejection in the order invalid_request,
\* server_id_too_long, not_found, disabled, limit_reached, and succeeds when
\* none applies; a disabled license at capacity reports disabled for a new
\* device and an unknown key with an over-long id reports server_id_too_long.
C14_RejectionPrecedence ==
    [][(ret = NoRet /\ ret'.op = "Activate") =>
          /\ ret'.res.Reason = FirstRejection(ret'.key, ret'.serverID)
          /\ ret'.res.OK <=> (ret'.res.Reason = "ok")]_vars

\* a device without a binding was refused as disabled at a disabled license
\* that is at capacity
C14_Witness ==
    /\ ret.op = "Activate"
    /\ ret.res.Reason = "disabled"
    /\ ret.serverID \notin Bound(ret.key)
    /\ countKeys(UsageOf(ret.key)) >= licenses[ret.key].Limit

----------------------------------------------------------------------------
(* The store with storage faults: damaged records and failing writes *)

\* the places where a write transaction can fail
WriteErr(point) ==
    CASE point = "put" -> "put failed"
      [] point = "bucket" -> "create bucket failed"
      [] point = "commit" -> "commit failed"

WriteErrs == {WriteErr(p) : p \in {"put", "bucket", "commit"}}

\* faulty variant: the writes made before the failure stay in the file
Committed_Partial(pre, post, err) == post

\* db.Update: the closure's writes are committed when it returns nil and
\* rolled back when it returns an error (bbolt_store.go 68, 90, 106, 176)
Committed(pre, post, err) == IF err # "" THEN pre ELSE post

\* the stored bytes of a license record are damaged
GarbleLicense(key) ==
    /\ ret = NoRet
    /\ key \in DOMAIN licenses
    /\ licenses[key] # GarbageLicense
    /\ licenses' = [licenses EXCEPT ![key] = GarbageLicense]
    /\ UNCHANGED <<usage, clock, pc, frame, ret, tally, states>>

\* the stored bytes of a binding are damaged
GarbleBinding(key, serverID) ==
    /\ ret = NoRet
    /\ key \in DOMAIN usage
    /\ serverID \in DOMAIN usage[key]
    /\ usage[key][serverID] # GarbageBinding
    /\ usage' = [usage EXCEPT ![key][serverID] = GarbageBinding]
    /\ UNCHANGED <<licenses, clock, pc, frame, ret, tally, states>>

\* bbolt_store.go 68-82 with a failing write: Put (74), CreateBucketIfNotExists
\* (77) or the commit
CreateTxFail(t, point) ==
    /\ ret = NoRet
    /\ pc[t] = "create_tx"
    /\ ~KeyTaken(frame[t].key)
    /\ LET f == frame[t]
           lic == [Key |-> f.key, Limit |-> f.limit, Note |-> f.note,
                   Enabled |-> TRUE, CreatedAt |-> f.now]
           putDone == IF point = "put" THEN licenses ELSE Put(licenses, f.key, lic)
           bucketDone == IF point = "commit" /\ f.key \notin DOMAIN usage
                         THEN Put(usage, f.key, EmptyBucket) ELSE usage
       IN /\ licenses' = Committed(licenses, putDone, WriteErr(point))
          /\ usage' = Committed(usage, bucketDone, WriteErr(point))
          /\ ret' = Return("CreateLicense", t, f.key, <<>>, f.limit, WriteErr(point),
                           ZeroLicense, ZeroResult)
    /\ pc' = Idle(t)
    /\ frame' = Clear(t)
    /\ UNCHANGED <<clock, tally, states>>

\* bbolt_store.go 90-98 with a failing putLicense (96) or commit
SetLimitFail(t, key, limit, point) ==
    /\ ret = NoRet
    /\ pc[t] = "idle"
    /\ point \in {"put", "commit"}
    /\ ~LimitInvalid(limit)
    /\ getLicense(key).err = ""
    /\ LET lic == [getLicense(key).lic EXCEPT !.Limit = limit]
           putDone == IF point = "put" THEN licenses ELSE Put(licenses, lic.Key, lic)
       IN /\ licenses' = Committed(licenses, putDone, WriteErr(point))
          /\ ret' = Return("SetLimit", t, key, <<>>, limit, WriteErr(point),
                           ZeroLicense, ZeroResult)
    /\ UNCHANGED <<usage, clock, pc, frame, tally, states>>

\* bbolt_store.go 106-114 with a failing putLicense (112) or commit
SetEnabledFail(t, key, enabled, point) ==
    /\ ret = NoRet
    /\ pc[t] = "idle"
    /\ point \in {"put", "commit"}
    /\ getLicense(key).err = ""
    /\ LET lic == [getLicense(key).lic EXCEPT !.Enabled = enabled]
           putDone == IF point = "put" THEN licenses ELSE Put(licenses, lic.Key, lic)
       IN /\ licenses' = Committed(licenses, putDone, WriteErr(point))
          /\ ret' = Return("SetEnabled", t, key, <<>>, 0, WriteErr(point),
                           ZeroLicense, ZeroResult)
    /\ UNCHANGED <<usage, clock, pc, frame, tally, states>>

\* bbolt_store.go 176-221 with a failing usage.Put (213) or commit: the
\* zero result and the error are returned
ActivateTxFail(t, point) ==
    /\ ret = NoRet
    /\ pc[t] = "activate_tx"
    /\ point \in {"put", "commit"}
    /\ Verdict(frame[t].key, frame[t].serverID) \in {"refresh", "bind"}
    /\ LET f == frame[t]
           putDone == IF point = "put" THEN usage
                      ELSE ActivateUsage(f.key, f.serverID, f.now)
       IN /\ usage' = Committed(usage, putDone, WriteErr(point))
          /\ ret' = Return("Activate", t, f.key, f.serverID, 0, WriteErr(point),
                           ZeroLicense, ZeroResult)
    /\ pc' = Idle(t)
    /\ frame' = Clear(t)
    /\ UNCHANGED <<licenses, clock, tally, states>>

NextFault ==
    \/ StoreStep({1}, OneKey, 1)
    \/ Deliver
    \/ \E key \in OneKey : GarbleLicense(key)
    \/ \E key \in OneKey, serverID \in Devices(1) : GarbleBinding(key, serverID)
    \/ \E point \in {"put", "bucket", "commit"} : CreateTxFail(1, point)
    \/ \E key \in OneKey, limit \in LimitInputs, point \in {"put", "commit"} :
          SetLimitFail(1, key, limit, point)
    \/ \E key \in OneKey, enabled \in BOOLEAN, point \in {"put", "commit"} :
          SetEnabledFail(1, key, enabled, point)
    \/ \E point \in {"put", "commit"} : ActivateTxFail(1, point)

SpecFault == Init /\ [][NextFault]_vars

----------------------------------------------------------------------------
(* C15 *)

\* C15: a stored record that cannot be deserialized makes Activate return an
\* error: a damaged license record is not reported as not_found, and a
\* damaged binding is not reported as a successful refresh.
C15_DamageSurfacedAsError ==
    [][ActivateCommits =>
          /\ (ret'.key \in DOMAIN licenses /\ licenses[ret'.key] = GarbageLicense)
                => ret'.err # ""
          /\ (/\ getLicense(ret'.key).err = ""
              /\ licenses[ret'.key].Enabled
              /\ ret'.serverID \in Bound(ret'.key)
              /\ UsageOf(ret'.key)[ret'.serverID] = GarbageBinding)
                => ret'.err # ""]_vars

----------------------------------------------------------------------------
(* C16 *)

\* C16: when a write transaction fails part-way (CreateLicense after the
\* record is written, SetLimit or SetEnabled at the record write, Activate at
\* the binding write, or any of them at the commit) the operation returns the
\* error and the persisted licenses and bindings are exactly as before it.
C16_FailedWriteLeavesNoTrace ==
    [][(ret = NoRet /\ ret'.err \in WriteErrs) =>
          /\ licenses' = licenses
          /\ usage' = usage]_vars

\* CreateLicense failed after its record was written and before its bucket
\* was created, and the store holds neither
C16_Witness ==
    /\ ret.op = "CreateLicense"
    /\ ret.err = WriteErr("bucket")
    /\ ret.key \notin DOMAIN licenses
    /\ ret.key \notin DOMAIN usage

----------------------------------------------------------------------------
(* Scenario: SetLimit, SetEnabled and Activate race on one license, with the
   read and the write of an update transaction as separate steps *)

MaxRaceLimit == 2

RaceKey == Key(1)

\* the callers: 1 sets the limit, 2 sets the enabled flag, 3 activates
RaceCallers == {1, 2, 3}

\* the caller that may bind a second device before the race
Prefiller == Cardinality(RaceCallers) + 1

\* faulty variant: update transactions do not exclude one another
WriterFree_Unlocked == TRUE

\* db.Update (bbolt_store.go 90, 106, 176) runs one write transaction at a
\* time: no caller is between the read and the write of its transaction
WriterFree == \A u \in Threads : pc[u] \notin {"setlimit_put", "setenabled_put"}

RaceCreateBegin ==
    /\ DOMAIN licenses = {}
    /\ \E L \in 1..MaxRaceLimit : CreateBegin(1, L, "vip", RaceKey, TRUE)

RaceStarted == \E t \in RaceCallers : t \in DOMAIN tally \/ pc[t] # "idle"

\* before the race a second device may be bound
RacePrefillBegin ==
    /\ RaceKey \in DOMAIN licenses
    /\ ~RaceStarted
    /\ Bound(RaceKey) = {}
    /\ ActivateBegin(Prefiller, RaceKey, DeviceID(2))

\* bbolt_store.go 85-95: the limit check, then inside db.Update getLicense and
\* lic.Limit = limit
SetLimitRead(t, key, limit) ==
    /\ ret = NoRet
    /\ pc[t] = "idle"
    /\ IF LimitInvalid(limit)
       THEN /\ ret' = Return("SetLimit", t, key, <<>>, limit, "limit must be > 0",
                             ZeroLicense, ZeroResult)
            /\ UNCHANGED <<pc, frame>>
       ELSE /\ WriterFree
            /\ IF getLicense(key).err # ""
               THEN /\ ret' = Return("SetLimit", t, key, <<>>, limit, getLicense(key).err,
                                     ZeroLicense, ZeroResult)
                    /\ UNCHANGED <<pc, frame>>
               ELSE /\ pc' = [pc EXCEPT ![t] = "setlimit_put"]
                    /\ frame' = [frame EXCEPT ![t] =
                          [ZeroFrame EXCEPT !.key = key, !.limit = limit,
                             !.lic = [getLicense(key).lic EXCEPT !.Limit = limit]]]
                    /\ UNCHANGED ret
    /\ UNCHANGED <<licenses, usage, clock, tally, states>>

\* bbolt_store.go 96-101: putLicense(lic) and the commit
SetLimitPut(t) ==
    /\ ret = NoRet
    /\ pc[t] = "setlimit_put"
    /\ licenses' = Put(licenses, frame[t].lic.Key, frame[t].lic)
    /\ ret' = Return("SetLimit", t, frame[t].key, <<>>, frame[t].limit, "",
                     frame[t].lic, ZeroResult)
    /\ pc' = Idle(t)
    /\ frame' = Clear(t)
    /\ UNCHANGED <<usage, clock, tally, states>>

\* bbolt_store.go 104-111: inside db.Update getLicense and lic.Enabled = enabled
SetEnabledRead(t, key, enabled) ==
    /\ ret = NoRet
    /\ pc[t] = "idle"
    /\ WriterFree
    /\ IF getLicense(key).err # ""
       THEN /\ ret' = Return("SetEnabled", t, key, <<>>, 0, getLicense(key).err,
                             ZeroLicense, ZeroResult)
            /\ UNCHANGED <<pc, frame>>
       ELSE /\ pc' = [pc EXCEPT ![t] = "setenabled_put"]
            /\ frame' = [frame EXCEPT ![t] =
                  [ZeroFrame EXCEPT !.key = key,
                     !.lic = [getLicense(key).lic EXCEPT !.Enabled = enabled]]]
            /\ UNCHANGED ret
    /\ UNCHANGED <<licenses, usage, clock, tally, states>>

\* bbolt_store.go 112-117: putLicense(lic) and the commit
SetEnabledPut(t) ==
    /\ ret = NoRet
    /\ pc[t] = "setenabled_put"
    /\ licenses' = Put(licenses, frame[t].lic.Key, frame[t].lic)
    /\ ret' = Return("SetEnabled", t, frame[t].key, <<>>, 0, "", frame[t].lic, ZeroResult)
    /\ pc' = Idle(t)
    /\ frame' = Clear(t)
    /\ UNCHANGED <<usage, clock, tally, states>>

RaceSetLimit ==
    /\ RaceKey \in DOMAIN licenses
    /\ 1 \notin DOMAIN tally
    /\ pc[Prefiller] = "idle"
    /\ \E L \in 1..MaxRaceLimit : SetLimitRead(1, RaceKey, L)

RaceSetEnabled ==
    /\ RaceKey \in DOMAIN licenses
    /\ 2 \notin DOMAIN tally
    /\ pc[Prefiller] = "idle"
    /\ \E e \in BOOLEAN : SetEnabledRead(2, RaceKey, e)

RaceActivateBegin ==
    /\ RaceKey \in DOMAIN licenses
    /\ 3 \notin DOMAIN tally
    /\ pc[Prefiller] = "idle"
    /\ ActivateBegin(3, RaceKey, DeviceID(1))

\* the activating transaction is a write transaction too
RaceActivateTx == WriterFree /\ \E t \in {3, Prefiller} : ActivateTx(t)

\* the created license is kept as entry 0, the return of each racing call
\* under its caller
RaceDeliver ==
    /\ Take
    /\ tally' = IF ret.op = "CreateLicense" THEN Put(tally, 0, ret)
                ELSE IF ret.thread = Prefiller THEN tally
                ELSE Put(tally, ret.thread, ret)

NextRace ==
    \/ RaceCreateBegin
    \/ CreateTx(1)
    \/ RacePrefillBegin
    \/ RaceSetLimit
    \/ SetLimitPut(1)
    \/ RaceSetEnabled
    \/ SetEnabledPut(2)
    \/ RaceActivateBegin
    \/ RaceActivateTx
    \/ RaceDeliver

SpecRace == Init /\ [][NextRace]_vars

----------------------------------------------------------------------------
(* C17 *)

RaceDone == DOMAIN tally = {0} \cup RaceCallers

\* the result of Activate for a new device at a license with this limit and
\* flag that already has n bindings
SerialResult(limit, enabled, n) ==
    IF ~enabled THEN [ZeroResult EXCEPT !.Reason = "disabled", !.Limit = limit]
    ELSE IF n >= limit
    THEN [OK |-> FALSE, Reason |-> "limit_reached", Used |-> n, Limit |-> limit,
          NewlyBound |-> FALSE]
    ELSE [OK |-> TRUE, Reason |-> "ok", Used |-> n + 1, Limit |-> limit,
          NewlyBound |-> TRUE]

\* C17: once a concurrent SetLimit(K, L), SetEnabled(K, e) and Activate(K, d)
\* have all returned, the stored record has limit = L and enabled = e with its
\* other fields as created, and Activate's result and binding are those of
\* one of the serial orders: it saw the created or the new limit and the
\* created or the new flag.
C17_NoLostUpdate ==
    RaceDone =>
       LET created == tally[0].lic
           L == tally[1].limit
           e == tally[2].lic.Enabled
           others == Cardinality(Bound(RaceKey) \ {DeviceID(1)})
       IN /\ licenses[RaceKey] = [created EXCEPT !.Limit = L, !.Enabled = e]
          /\ \E limit \in {created.Limit, L}, enabled \in {TRUE, e} :
                tally[3].res = SerialResult(limit, enabled, others)
          /\ tally[3].res.OK <=> DeviceID(1) \in Bound(RaceKey)

\* all three calls have returned; the limit was changed, the license was
\* disabled and the activation was admitted before that
C17_Witness ==
    /\ RaceDone
    /\ tally[1].limit # tally[0].lic.Limit
    /\ ~tally[2].lic.Enabled
    /\ tally[3].res.OK
    /\ licenses[RaceKey].Limit = tally[1].limit
    /\ ~licenses[RaceKey].Enabled

----------------------------------------------------------------------------
(* The HTTP endpoint /v1/activate in front of the store *)

MaxRequests == 2

StatusOK == 200
StatusBadRequest == 400
StatusForbidden == 403
StatusMethodNotAllowed == 405
StatusInternalServerError == 500

HttpKey == Key(1)

Methods == {"POST", "GET"}

\* request bodies: JSON syntax ok or not, an unknown field or none, and the
\* two fields of activateReq (absent fields decode to the empty string)
HttpBodies ==
    [syntax : BOOLEAN, extra : BOOLEAN,
     license : {HttpKey, <<>>}, server_id : Devices(2) \cup {<<>>, LongID}]

\* http.go 40-42: Decode with DisallowUnknownFields
DecodeFails(body) == ~body.syntax \/ body.extra

\* faulty variant: every store result is answered 200
StatusOf_AlwaysOK(err, res) == StatusOK

\* http.go 47-54
StatusOf(err, res) ==
    IF err # "" THEN StatusInternalServerError
    ELSE IF ~res.OK THEN StatusForbidden
    ELSE StatusOK

\* http.go 48, 55: the body written for a store return
BodyOf(err, res) ==
    IF err # "" THEN [ZeroResult EXCEPT !.Reason = "server_error"] ELSE res

Response(method, decoded, called, status, out) ==
    [method |-> method, decoded |-> decoded, called |-> called,
     status |-> status, body |-> out]

\* http.go 34-46: the method check, the decoding, and the call of Activate
HandleActivate(t, method, body) ==
    /\ ret = NoRet
    /\ pc[t] = "idle"
    /\ Len(tally) < MaxRequests
    /\ IF method # "POST"
       THEN /\ tally' = Append(tally, Response(method, FALSE, FALSE,
                                               StatusMethodNotAllowed, ZeroResult))
            /\ UNCHANGED <<licenses, usage, clock, pc, frame, ret, states>>
       ELSE IF DecodeFails(body)
       THEN /\ tally' = Append(tally, Response(method, FALSE, FALSE, StatusBadRequest,
                                               [ZeroResult EXCEPT !.Reason = "bad_json"]))
            /\ UNCHANGED <<licenses, usage, clock, pc, frame, ret, states>>
       ELSE ActivateBegin(t, body.license, body.server_id)

\* http.go 46-56: Activate has returned and the response is written
HandleRespond ==
    /\ ret.op = "Activate"
    /\ Take
    /\ tally' = Append(tally, Response("POST", TRUE, TRUE, StatusOf(ret.err, ret.res),
                                       BodyOf(ret.err, ret.res)))

HttpCreateBegin ==
    /\ DOMAIN licenses = {}
    /\ \E L \in 1..MaxLimit : CreateBegin(1, L, "vip", HttpKey, TRUE)

HttpSetEnabled == \E e \in BOOLEAN : SetEnabled(1, HttpKey, e)

HttpSetupDeliver == ret.op # "Activate" /\ Deliver

NextHttp ==
    \/ HttpCreateBegin
    \/ CreateTx(1)
    \/ HttpSetEnabled
    \/ HttpSetupDeliver
    \/ \E method \in Methods, body \in HttpBodies : HandleActivate(1, method, body)
    \/ ActivateTx(1)
    \/ ActivateTxFail(1, "commit")
    \/ HandleRespond

SpecHttp == Init /\ [][NextHttp]_vars

----------------------------------------------------------------------------
(* C19 *)

\* the step writes a response
Responds == Len(tally') = Len(tally) + 1

\* the step neither calls the store nor receives a return of it
StoreUntouched ==
    /\ ret = NoRet
    /\ UNCHANGED <<licenses, usage, pc, frame, ret>>

\* C19: a response to a well-formed POST is written from a store return and
\* is 200 exactly when the store returned ok = true and 403 when it returned
\* ok = false, with the store's result as the body; a response 400 (body not
\* decodable) or 405 (not a POST) is written without the store being called.
C19_HttpStatusFollowsStore ==
    [][Responds =>
          LET r == tally'[Len(tally')]
          IN /\ (r.method = "POST" /\ r.decoded) =>
                   /\ ret.op = "Activate"
                   /\ ret.err = "" =>
                         /\ r.status = StatusOK <=> ret.res.OK
                         /\ r.status = StatusForbidden <=> ~ret.res.OK
                         /\ r.body = ret.res
             /\ r.method # "POST" => r.status = StatusMethodNotAllowed
             /\ (r.method = "POST" /\ ~r.decoded) => r.status = StatusBadRequest
             /\ r.status \in {StatusBadRequest, StatusMethodNotAllowed} => StoreUntouched]_vars

\* an undecodable POST was answered 400, then a well-formed POST was answered
\* 200 with the store's admission as its body
C19_Witness ==
    /\ Len(tally) = 2
    /\ tally[1].status = StatusBadRequest
    /\ tally[2].status = StatusOK
    /\ tally[2].body.OK
    /\ tally[2].body.NewlyBound
    /\ Bound(HttpKey) # {}

----------------------------------------------------------------------------
(* Scenario: one caller activates with arguments in padded and plain forms *)

MaxTrimCalls == 2

TrimKey == Key(1)

\* a string with white space before it, after it, or on both sides
Forms(s) == {s, <<32>> \o s \o <<9, 32>>, <<10>> \o s, s \o <<13, 32>>}

\* the arguments the caller chooses from
ArgKeys == {TrimKey, <<32>> \o TrimKey \o <<9, 32>>}

ArgIDs == Forms(DeviceID(1)) \cup {DeviceID(2)}

\* the arguments the two forms of a call are compared on
FormKeys == ArgKeys \cup {<<>>, <<32>>}

FormIDs == ArgIDs \cup {<<>>, <<32, 10>>, LongID, <<32>> \o LongID \o <<10>>}

\* bbolt_store.go 164-223 run without interruption in the current store:
\* the result, and the bindings afterwards
ActivateOutcome(rawKey, rawID, now) ==
    LET key == TrimmedArgs(rawKey, rawID).key
        serverID == TrimmedArgs(rawKey, rawID).serverID
    IN IF InvalidRequest(key, serverID)
       THEN [res |-> [ZeroResult EXCEPT !.Reason = "invalid_request"], usage |-> usage]
       ELSE IF ServerIDTooLong(serverID)
       THEN [res |-> [ZeroResult EXCEPT !.Reason = "server_id_too_long"], usage |-> usage]
       ELSE [res |-> ActivateResult(key, serverID, now),
             usage |-> ActivateUsage(key, serverID, now)]

TrimCreateBegin ==
    /\ DOMAIN licenses = {}
    /\ \E L \in 1..MaxLimit : CreateBegin(1, L, "vip", TrimKey, TRUE)

TrimSetupDeliver == ret.op = "CreateLicense" /\ Deliver

\* the caller has chosen the arguments of a call it has not finished
TrimPending == Len(tally) > 0 /\ ~tally[Len(tally)].done

\* the caller chooses the arguments of its next call
TrimChoose ==
    /\ ret = NoRet
    /\ pc[1] = "idle"
    /\ TrimKey \in DOMAIN licenses
    /\ ~TrimPending
    /\ Len(tally) < MaxTrimCalls
    /\ \E rawKey \in ArgKeys, rawID \in ArgIDs :
          tally' = Append(tally, [rawKey |-> rawKey, rawID |-> rawID, done |-> FALSE,
                                  res |-> ZeroResult])
    /\ UNCHANGED <<licenses, usage, clock, pc, frame, ret, states>>

TrimBegin ==
    /\ TrimPending
    /\ ActivateBegin(1, tally[Len(tally)].rawKey, tally[Len(tally)].rawID)

TrimDeliver ==
    /\ ret.op = "Activate"
    /\ Take
    /\ tally' = [tally EXCEPT ![Len(tally)].done = TRUE, ![Len(tally)].res = ret.res]

NextTrim ==
    \/ TrimCreateBegin
    \/ CreateTx(1)
    \/ TrimSetupDeliver
    \/ TrimChoose
    \/ TrimBegin
    \/ ActivateTx(1)
    \/ TrimDeliver

SpecTrim == Init /\ [][NextTrim]_vars

----------------------------------------------------------------------------
(* C20 *)

\* two finished calls whose arguments are equal after trimming
SameAfterTrim(i, j) ==
    /\ tally[i].done /\ tally[j].done
    /\ TrimSpace(tally[i].rawKey) = TrimSpace(tally[j].rawKey)
    /\ TrimSpace(tally[i].rawID) = TrimSpace(tally[j].rawID)

\* C20: Activate on padded arguments returns the result and has the effect of
\* Activate on the trimmed arguments; bindings are stored under the trimmed
\* device id; and an id that differs from a bound one only in surrounding
\* white space is the same device: its activation is a refresh with
\* newly_bound = false that does not increase used (used grows only by the
\* other devices bound in between).
C20_PaddingIgnored ==
    /\ \A rawKey \in FormKeys, rawID \in FormIDs :
          ActivateOutcome(rawKey, rawID, clock)
             = ActivateOutcome(TrimSpace(rawKey), TrimSpace(rawID), clock)
    /\ \A k \in DOMAIN usage : \A d \in DOMAIN usage[k] :
          TrimSpace(d) = d /\ usage[k][d].ServerID = d
    /\ \A i, j \in 1..Len(tally) :
          (i < j /\ SameAfterTrim(i, j) /\ tally[i].res.OK) =>
             /\ tally[j].res.OK
             /\ ~tally[j].res.NewlyBound
             /\ tally[j].res.Used = tally[i].res.Used
                   + Cardinality({m \in (i + 1)..(j - 1) : tally[m].res.NewlyBound})

\* a device was bound under a padded id and then refreshed under another form
\* of the same id
C20_Witness ==
    /\ Len(tally) = 2
    /\ SameAfterTrim(1, 2)
    /\ tally[1].rawID # TrimSpace(tally[1].rawID)
    /\ tally[2].rawID # tally[1].rawID
    /\ tally[1].rawKey # tally[2].rawKey
    /\ tally[1].res.NewlyBound
    /\ tally[2].res.OK
    /\ ~tally[2].res.NewlyBound
    /\ tally[2].res.Used = 1
    /\ Bound(TrimKey) = {TrimSpace(tally[1].rawID)}

----------------------------------------------------------------------------
(* Scenario: one caller activates with device ids around the length limit *)

LenKey == Key(1)

\* 128 and 129 letters; 64 and 65 two-byte characters (128 and 130 bytes)
ExactID == Rep(120, MaxServerIDLen)
WideExactID == Rep(233, MaxServerIDLen \div 2)
WideID == Rep(233, MaxServerIDLen \div 2 + 1)

LenIDs == {DeviceID(1), ExactID, LongID, WideExactID, WideID}

LenCreateBegin ==
    /\ DOMAIN licenses = {}
    /\ \E L \in 1..(MaxLimit + 1) : CreateBegin(1, L, "vip", LenKey, TRUE)

LenBegin == \E rawID \in LenIDs \cup Padded({WideID, ExactID}) :
               ActivateBegin(1, LenKey, rawID)

NextLen ==
    \/ LenCreateBegin
    \/ CreateTx(1)
    \/ LenBegin
    \/ ActivateTx(1)
    \/ \E e \in BOOLEAN : SetEnabled(1, LenKey, e)
    \/ Tick(1)
    \/ Deliver

SpecLen == Init /\ [][NextLen]_vars

----------------------------------------------------------------------------
(* C21 *)

\* C21: an Activate call with a non-empty key whose trimmed device id is
\* longer than 128 characters is rejected with server_id_too_long and leaves
\* licenses and bindings unchanged; a device id of 128 characters or fewer is
\* never rejected with server_id_too_long; and no stored binding has a
\* device id longer than 128 characters.
C21_LengthLimitInCharacters ==
    [][(ret = NoRet /\ ret'.op = "Activate") =>
          /\ (ret'.key # <<>> /\ Len(ret'.serverID) > MaxServerIDLen) =>
                /\ ret'.res.Reason = "server_id_too_long"
                /\ licenses' = licenses
                /\ usage' = usage
          /\ Len(ret'.serverID) <= MaxServerIDLen =>
                ret'.res.Reason # "server_id_too_long"
          /\ \A k \in DOMAIN usage' : \A d \in DOMAIN usage'[k] :
                Len(d) <= MaxServerIDLen]_vars

----------------------------------------------------------------------------
(* C22 *)

\* C22: the Bindings list GetInfo returns for an existing license holds every
\* device bound to the license exactly once, each with its stored record, and
\* is ordered by last_seen descending: of two adjacent entries the earlier
\* one's last_seen is greater than or equal to the later one's.
C22_BindingsNewestFirst ==
    (ret.op = "GetInfo" /\ ret.err = "") =>
       LET bs == ret.info.Bindings
       IN /\ {bs[i].ServerID : i \in 1..Len(bs)} = Bound(ret.key)
          /\ Len(bs) = Cardinality(Bound(ret.key))
          /\ \A i \in 1..Len(bs) : bs[i] = UsageOf(ret.key)[bs[i].ServerID]
          /\ \A i \in 1..(Len(bs) - 1) : bs[i].LastSeen >= bs[i + 1].LastSeen

\* GetInfo returned two bindings, the first seen later than the second
C22_Witness ==
    /\ ret.op = "GetInfo"
    /\ ret.err = ""
    /\ Len(ret.info.Bindings) = 2
    /\ ret.info.Bindings[1].LastSeen > ret.info.Bindings[2].LastSeen

----------------------------------------------------------------------------
(* C23 *)

\* the bindings stored under one license alone
OwnBindings(u, key) == IF key \in DOMAIN u THEN u[key] ELSE EmptyBucket

\* C23: an Activate transaction on license K leaves every license record and
\* the bindings of every other license unchanged, and its outcome is decided
\* by K's own bindings alone: the device is new exactly when K has no binding
\* for it, it is refused with limit_reached exactly when it is new and K's own
\* bindings have reached K's limit, and used counts K's own bindings.
C23_BindingsScopedPerLicense ==
    [][ActivateCommits =>
          LET k == ret'.key
              d == ret'.serverID
              own == OwnBindings(usage, k)
          IN /\ licenses' = licenses
             /\ \A k2 \in (DOMAIN usage \cup DOMAIN usage') \ {k} :
                   OwnBindings(usage', k2) = OwnBindings(usage, k2)
             /\ (k \in DOMAIN licenses /\ licenses[k].Enabled) =>
                   /\ ret'.res.NewlyBound <=> (ret'.res.OK /\ d \notin DOMAIN own)
                   /\ ret'.res.OK <=>
                         (d \in DOMAIN own \/ Cardinality(DOMAIN own) < licenses[k].Limit)
                   /\ ret'.res.OK =>
                         ret'.res.Used = Cardinality(DOMAIN OwnBindings(usage', k))]_vars

\* a device already bound under one license was bound under a second license,
\* and each license counts it once
C23_Witness ==
    /\ ret.op = "Activate"
    /\ ret.res.OK
    /\ ret.res.NewlyBound
    /\ ret.res.Used = 1
    /\ \E k2 \in DOMAIN usage \ {ret.key} :
          /\ ret.serverID \in DOMAIN usage[k2]
          /\ Cardinality(DOMAIN usage[k2]) = 1

----------------------------------------------------------------------------
(* C24 *)

\* C24: every stored binding has first_seen <= last_seen, and the first_seen
\* of a binding never changes once the binding exists, also when calls for
\* the same device under the same license overlap.
C24_FirstSeenBeforeLastSeen ==
    [][/\ \A k \in DOMAIN usage' : \A d \in DOMAIN usage'[k] :
             usage'[k][d].FirstSeen <= usage'[k][d].LastSeen
       /\ \A k \in DOMAIN usage : \A d \in DOMAIN usage[k] :
             usage'[k][d].FirstSeen = usage[k][d].FirstSeen]_vars

----------------------------------------------------------------------------
(* The operator bot (Telegram front end) *)

adminChatID == 1

\* the admin chat and a chat of somebody else
Chats == {adminChatID, adminChatID + 1}

stateNone == ""
stateNewLicense == "new_license"
stateAskInfo == "ask_info"
stateAskSetLimit == "ask_setlimit"
stateAskEnable == "ask_enable"
stateAskDisable == "ask_disable"

AwaitingStates ==
    {stateNewLicense, stateAskInfo, stateAskSetLimit, stateAskEnable, stateAskDisable}

\* part_000 273-281: stateNone deletes the entry
setState(chatID, st) ==
    IF st = stateNone
    THEN [c \in DOMAIN states \ {chatID} |-> states[c]]
    ELSE Put(states, chatID, st)

\* part_000 283-287: a missing entry reads as stateNone
getState(chatID) == IF chatID \in DOMAIN states THEN states[chatID] ELSE stateNone

\* strings.HasPrefix, strings.TrimPrefix
HasPrefix(s, p) == Len(s) >= Len(p) /\ SubSeq(s, 1, Len(p)) = p
TrimPrefix(s, p) == IF HasPrefix(s, p) THEN SubSeq(s, Len(p) + 1, Len(s)) ELSE s

\* the length of the first run of non-space characters of s
WordLen(s) ==
    IF \E i \in 1..Len(s) : IsSpace(s[i])
    THEN (CHOOSE i \in 1..Len(s) : IsSpace(s[i]) /\ \A j \in 1..(i - 1) : ~IsSpace(s[j])) - 1
    ELSE Len(s)

\* strings.Fields: the words of s
RECURSIVE Fields(_)
Fields(s) ==
    LET t == TrimLeft(s)
    IN IF t = <<>> THEN <<>>
       ELSE <<SubSeq(t, 1, WordLen(t))>> \o Fields(SubSeq(t, WordLen(t) + 1, Len(t)))

IsDigits(w) == w # <<>> /\ \A i \in 1..Len(w) : w[i] \in 48..57

RECURSIVE DigitsValue(_)
DigitsValue(w) ==
    IF w = <<>> THEN 0
    ELSE 10 * DigitsValue(SubSeq(w, 1, Len(w) - 1)) + (w[Len(w)] - 48)

\* strconv.Atoi: an optional sign and decimal digits
Atoi(w) ==
    IF IsDigits(w) THEN [err |-> FALSE, val |-> DigitsValue(w)]
    ELSE IF w # <<>> /\ w[1] = 45 /\ IsDigits(Tail(w))
    THEN [err |-> FALSE, val |-> 0 - DigitsValue(Tail(w))]
    ELSE IF w # <<>> /\ w[1] = 43 /\ IsDigits(Tail(w))
    THEN [err |-> FALSE, val |-> DigitsValue(Tail(w))]
    ELSE [err |-> TRUE, val |-> 0]

\* "/start", "/help", "/menu"
SlashStart == <<47, 115, 116, 97, 114, 116>>
SlashHelp == <<47, 104, 101, 108, 112>>
SlashMenu == <<47, 109, 101, 110, 117>>

IsMenuCommand(text) ==
    HasPrefix(text, SlashStart) \/ HasPrefix(text, SlashHelp) \/ HasPrefix(text, SlashMenu)

\* the keys NewKey may draw while the bot runs
BotKeys == TwoKeys

\* the texts a chat sends: blank, a command, limits, a note, keys, key and limit
BotTexts ==
    {<<>>, <<32, 10>>, SlashMenu, <<32>> \o SlashStart,
     <<50>>, <<48>>, <<45, 49>>, <<120>>, <<49, 32, 32, 118, 105, 112>>,
     Key(1), Key(2) \o <<32>>,
     Key(1) \o <<32, 50>>, Key(1) \o <<32, 48>>, Key(1) \o <<32, 120>>,
     Key(1) \o <<32, 49, 32, 50>>}

\* callback data: a button name, and for "info:" the key that follows it
BotData ==
    [name : {"menu", "new", "list", "ask_info", "ask_setlimit", "ask_enable",
             "ask_disable", "bogus"}, arg : {<<>>}]
    \cup [name : {"info:"}, arg : BotKeys]

\* the Run loop's note of the update it handled last
Handled(chatID, kind) == [chat |-> chatID, kind |-> kind, was |-> getState(chatID)]

NotAdmin_Open(chatID) == FALSE

\* part_000 75-79 and 121-124: only the admin chat manages
NotAdmin(chatID) == chatID # adminChatID

\* nothing is called and nothing is remembered
BotIgnores == UNCHANGED <<licenses, usage, ret, states>>

\* Store.CreateLicense as the bot calls it (bbolt_store.go 57-83), with the
\* key NewKey drew
BotCreateLicense(limit, note, key) ==
    LET lic == [Key |-> key, Limit |-> limit, Note |-> note, Enabled |-> TRUE,
                CreatedAt |-> clock]
    IN IF LimitInvalid(limit)
       THEN /\ ret' = Return("CreateLicense", 1, <<>>, <<>>, limit, "limit must be > 0",
                             ZeroLicense, ZeroResult)
            /\ UNCHANGED <<licenses, usage>>
       ELSE IF KeyTaken(key)
       THEN /\ ret' = Return("CreateLicense", 1, key, <<>>, limit,
                             "key collision, try again", ZeroLicense, ZeroResult)
            /\ UNCHANGED <<licenses, usage>>
       ELSE /\ licenses' = Put(licenses, key, lic)
            /\ usage' = IF key \in DOMAIN usage THEN usage ELSE Put(usage, key, EmptyBucket)
            /\ ret' = Return("CreateLicense", 1, key, <<>>, limit, "", lic, ZeroResult)

\* Store.SetLimit as the bot calls it (bbolt_store.go 85-102)
BotSetLimit(key, limit) ==
    /\ IF LimitInvalid(limit)
       THEN /\ ret' = Return("SetLimit", 1, key, <<>>, limit, "limit must be > 0",
                             ZeroLicense, ZeroResult)
            /\ UNCHANGED licenses
       ELSE IF getLicense(key).err # ""
       THEN /\ ret' = Return("SetLimit", 1, key, <<>>, limit, getLicense(key).err,
                             ZeroLicense, ZeroResult)
            /\ UNCHANGED licenses
       ELSE LET lic == [getLicense(key).lic EXCEPT !.Limit = limit]
            IN /\ licenses' = Put(licenses, lic.Key, lic)
               /\ ret' = Return("SetLimit", 1, key, <<>>, limit, "", lic, ZeroResult)
    /\ UNCHANGED usage

\* Store.SetEnabled as the bot calls it (bbolt_store.go 104-118)
BotSetEnabled(key, enabled) ==
    /\ IF getLicense(key).err # ""
       THEN /\ ret' = Return("SetEnabled", 1, key, <<>>, 0, getLicense(key).err,
                             ZeroLicense, ZeroResult)
            /\ UNCHANGED licenses
       ELSE LET lic == [getLicense(key).lic EXCEPT !.Enabled = enabled]
            IN /\ licenses' = Put(licenses, lic.Key, lic)
               /\ ret' = Return("SetEnabled", 1, key, <<>>, 0, "", lic, ZeroResult)
    /\ UNCHANGED usage

\* Store.GetInfo as the bot calls it (bbolt_store.go 120-137)
BotGetInfo(key) ==
    /\ IF getLicense(key).err # ""
       THEN ret' = ReturnInfo("GetInfo", 1, key, getLicense(key).err, ZeroInfo, <<>>)
       ELSE IF getBindings(key).err # ""
       THEN ret' = ReturnInfo("GetInfo", 1, key, getBindings(key).err, ZeroInfo, <<>>)
       ELSE \E bindings \in getBindings(key).lists :
               ret' = ReturnInfo("GetInfo", 1, key, "",
                                 [License |-> getLicense(key).lic, Used |-> Len(bindings),
                                  Bindings |-> bindings], <<>>)
    /\ UNCHANGED <<licenses, usage>>

\* Store.ListLicenses as the bot calls it (bbolt_store.go 139-162)
BotListLicenses ==
    /\ IF \E k \in DOMAIN licenses : getLicense(k).err # "" \/ getBindings(k).err # ""
       THEN ret' = ReturnInfo("ListLicenses", 1, <<>>, errUnmarshal, ZeroInfo, <<>>)
       ELSE \E out \in ByCreatedAt :
               ret' = ReturnInfo("ListLicenses", 1, <<>>, "", ZeroInfo, out)
    /\ UNCHANGED <<licenses, usage>>

\* part_000 228-249
handleNewLicenseInput(chatID, text) ==
    LET fields == Fields(text)
        limit == Atoi(fields[1])
        note == TrimSpace(TrimSpace(TrimPrefix(text, fields[1])))
    IN IF Len(fields) < 1 THEN BotIgnores
       ELSE IF limit.err \/ limit.val <= 0 THEN BotIgnores
       ELSE \E key \in BotKeys :
               /\ BotCreateLicense(limit.val, note, key)
               /\ states' = IF ret'.err # "" THEN states ELSE setState(chatID, stateNone)

handleSetLimitInput_ResetFirst(chatID, text) ==
    LET fields == Fields(text)
        limit == Atoi(fields[2])
    IN IF Len(fields) # 2 \/ limit.err \/ limit.val <= 0
       THEN /\ states' = setState(chatID, stateNone)
            /\ UNCHANGED <<licenses, usage, ret>>
       ELSE /\ states' = setState(chatID, stateNone)
            /\ BotSetLimit(fields[1], limit.val)

\* part_000 251-265
handleSetLimitInput(chatID, text) ==
    LET fields == Fields(text)
        limit == Atoi(fields[2])
    IN IF Len(fields) # 2 THEN BotIgnores
       ELSE IF limit.err \/ limit.val <= 0 THEN BotIgnores
       ELSE /\ states' = setState(chatID, stateNone)
            /\ BotSetLimit(fields[1], limit.val)

\* part_000 67-115
handleMessage(chatID, rawText) ==
    /\ ret = NoRet
    /\ LET text == TrimSpace(rawText)
           st == getState(chatID)
       IN IF text = <<>> THEN BotIgnores
          ELSE IF NotAdmin(chatID) THEN BotIgnores
          ELSE IF IsMenuCommand(text)
          THEN /\ states' = setState(chatID, stateNone)
               /\ UNCHANGED <<licenses, usage, ret>>
          ELSE CASE st = stateNewLicense -> handleNewLicenseInput(chatID, text)
                 [] st = stateAskInfo ->
                       /\ states' = setState(chatID, stateNone)
                       /\ BotGetInfo(text)
                 [] st = stateAskSetLimit -> handleSetLimitInput(chatID, text)
                 [] st = stateAskEnable ->
                       /\ states' = setState(chatID, stateNone)
                       /\ BotSetEnabled(text, TRUE)
                 [] st = stateAskDisable ->
                       /\ states' = setState(chatID, stateNone)
                       /\ BotSetEnabled(text, FALSE)
                 [] OTHER -> BotIgnores
    /\ tally' = Handled(chatID, "message")
    /\ UNCHANGED <<clock, pc, frame>>

\* part_000 117-159
handleCallback(chatID, data) ==
    /\ ret = NoRet
    /\ IF NotAdmin(chatID) THEN BotIgnores
       ELSE CASE data.name = "menu" ->
                    /\ states' = setState(chatID, stateNone)
                    /\ UNCHANGED <<licenses, usage, ret>>
              [] data.name = "new" ->
                    /\ states' = setState(chatID, stateNewLicense)
                    /\ UNCHANGED <<licenses, usage, ret>>
              [] data.name = "list" ->
                    /\ states' = setState(chatID, stateNone)
                    /\ BotListLicenses
              [] data.name = "ask_info" ->
                    /\ states' = setState(chatID, stateAskInfo)
                    /\ UNCHANGED <<licenses, usage, ret>>
              [] data.name = "ask_setlimit" ->
                    /\ states' = setState(chatID, stateAskSetLimit)
                    /\ UNCHANGED <<licenses, usage, ret>>
              [] data.name = "ask_enable" ->
                    /\ states' = setState(chatID, stateAskEnable)
                    /\ UNCHANGED <<licenses, usage, ret>>
              [] data.name = "ask_disable" ->
                    /\ states' = setState(chatID, stateAskDisable)
                    /\ UNCHANGED <<licenses, usage, ret>>
              [] data.name = "info:" ->
                    /\ states' = setState(chatID, stateNone)
                    /\ BotGetInfo(data.arg)
              [] OTHER -> BotIgnores
    /\ tally' = Handled(chatID, "callback")
    /\ UNCHANGED <<clock, pc, frame>>

NextBot ==
    \/ \E chatID \in Chats, rawText \in BotTexts : handleMessage(chatID, rawText)
    \/ \E chatID \in Chats, data \in BotData : handleCallback(chatID, data)
    \/ Tick(1)
    \/ Deliver

SpecBot == Init /\ [][NextBot]_vars

\* a step in which the Run loop handles an update of a chat other than the admin's
StrangerUpdate ==
    \E chatID \in Chats \ {adminChatID} :
        \/ \E rawText \in BotTexts : handleMessage(chatID, rawText)
        \/ \E data \in BotData : handleCallback(chatID, data)

\* C25: an update (text message or button callback) whose chat id is not the
\* admin chat id calls no store operation, changes no stored license or
\* binding, and changes no chat's pending state.
C25_OnlyAdminManages ==
    [][StrangerUpdate =>
          /\ ret' = NoRet
          /\ licenses' = licenses /\ usage' = usage
          /\ states' = states]_vars

\* a stranger's update was handled while licenses exist and the admin chat is
\* in the middle of a dialogue
C25_Witness ==
    /\ tally # <<>>
    /\ tally.chat # adminChatID
    /\ DOMAIN licenses # {}
    /\ getState(adminChatID) \in AwaitingStates
    /\ DOMAIN states = {adminChatID}

\* the pending state each menu button asks for
ButtonState(name) ==
    CASE name = "new" -> stateNewLicense
      [] name = "ask_info" -> stateAskInfo
      [] name = "ask_setlimit" -> stateAskSetLimit
      [] name = "ask_enable" -> stateAskEnable
      [] name = "ask_disable" -> stateAskDisable

MenuButtons == {"new", "ask_info", "ask_setlimit", "ask_enable", "ask_disable"}

\* a menu button pressed in the admin chat sets the matching pending state
ButtonSetsState ==
    \A data \in BotData :
        (data.name \in MenuButtons /\ handleCallback(adminChatID, data))
            => getState(adminChatID)' = ButtonState(data.name)

\* the non-blank texts of the admin chat
AdminTexts == {rawText \in BotTexts : TrimSpace(rawText) # <<>>}

\* C26 (as stated): a menu button moves the admin chat to the matching
\* awaiting state, and any admin text message handled while the chat awaits
\* input returns the chat to idle.
C26_TextAlwaysReturnsToIdle ==
    [][/\ ButtonSetsState
       /\ \A rawText \in AdminTexts :
             (getState(adminChatID) \in AwaitingStates /\ handleMessage(adminChatID, rawText))
                 => getState(adminChatID)' = stateNone]_vars

\* C26 (amended): a menu button moves the admin chat to the matching awaiting
\* state; an admin text message handled while the chat awaits input returns
\* the chat to idle exactly when it is a /start, /help or /menu command or the
\* handler went on to call the store, a failed CreateLicense excepted;
\* otherwise the pending state is kept and the input can be sent again.
C26_TextReturnsToIdleWhenAccepted ==
    [][/\ ButtonSetsState
       /\ \A rawText \in AdminTexts :
             (getState(adminChatID) \in AwaitingStates /\ handleMessage(adminChatID, rawText))
                 => LET called == ret' # NoRet
                        failedCreate == ret'.op = "CreateLicense" /\ ret'.err # ""
                        accepted == \/ IsMenuCommand(TrimSpace(rawText))
                                    \/ called /\ ~failedCreate
                    IN /\ accepted => getState(adminChatID)' = stateNone
                       /\ ~accepted => states' = states
                       /\ IsMenuCommand(TrimSpace(rawText)) => ~called]_vars

\* the admin answered the set-limit question and the limit was stored, the
\* chat being idle again
C26_Witness ==
    /\ tally # <<>>
    /\ tally.chat = adminChatID /\ tally.kind = "message"
    /\ tally.was = stateAskSetLimit
    /\ ret.op = "SetLimit" /\ ret.err = ""
    /\ getState(adminChatID) = stateNone

\* the admin's answer was refused and the chat still awaits the input
C26_RetryWitness ==
    /\ tally # <<>>
    /\ tally.chat = adminChatID /\ tally.kind = "message"
    /\ tally.was = stateNewLicense
    /\ ret = NoRet
    /\ getState(adminChatID) = stateNewLicense

====
